---- MODULE Spec2Model ----
(***************************************************************************)
(* Model of src/main.py: the video decode loop (video_loop), the settings  *)
(* handlers (get_settings, update_settings), the per-client generator      *)
(* (mjpeg_streamer) and the lifespan start/stop, as threads that share the *)
(* module globals current_settings, latest_frame, ORIG_WIDTH, ORIG_HEIGHT, *)
(* video_restart_event and the file settings.json.                         *)
(*                                                                         *)
(* Every read or write of a global is a step of its own, so that the       *)
(* interleavings the interpreter allows between two bytecodes are the      *)
(* interleavings of the model.  Steps that touch only locals are merged    *)
(* into the neighbouring step.                                             *)
(*                                                                         *)
(* Coordinates are kept in half pixels (the integer 3 is 1.5 px), so that  *)
(* fractional corner points exist in the model.                            *)
(***************************************************************************)
EXTENDS Integers, Sequences, FiniteSets, TLC

\* ------------------------------------------------------------- bounds
\* POST /settings requests served in one run of each specification
MaxStreamPosts == 1
MaxSlotPosts == 1
MaxLoopPosts == 2
MaxApiPosts == 3
MaxFsPosts == 1
MaxHandlePosts == 1
MaxWritablePosts == 2
\* frame buffers that can be alive at once (slot, decoder, one reader)
MaxBufs == 3

\* Python's None, where a name or a string is expected
None == "None"
\* None where a frame array is expected (buffer ids start at 1)
NoBuf == 0

\* ------------------------------------------------------------ videos
\* ./videos at process start: a.mp4 and b.mp4 can be opened, x.mp4 cannot
Videos == {"a", "b", "x"}
Openable == {"a", "b"}

\* CAP_PROP_FRAME_WIDTH / CAP_PROP_FRAME_HEIGHT of a video, in pixels
NativeWidth(v) == IF v = "a" THEN 2 ELSE 4
NativeHeight(v) == IF v = "a" THEN 1 ELSE 3

\* number of frames cap.read() delivers before it reports failure
FrameCount(v) == IF v = "a" THEN 2 ELSE 1

\* ---------------------------------------------------------- settings
CornerPoint(px, py) == [x |-> px, y |-> py]

TransformSettings(v, tl, tr, br, bl, b, c, s, r) ==
    [videoName |-> v, topLeft |-> tl, topRight |-> tr, bottomRight |-> br,
     bottomLeft |-> bl, brightness |-> b, contrast |-> c, saturation |-> s,
     rotation |-> r]

\* The settings values a client posts (half-pixel coordinates).
\* SetA: a 2 x 2 px square, neutral colour.
SetA == TransformSettings("a", CornerPoint(0, 0), CornerPoint(4, 0),
                          CornerPoint(4, 4), CornerPoint(0, 4), 100, 100, 100, 0)
\* SetB: another video, all four corner points on the line y = 1 px.
SetB == TransformSettings("b", CornerPoint(2, 2), CornerPoint(6, 2),
                          CornerPoint(8, 2), CornerPoint(10, 2), 200, 50, 0, 90)
\* SetX: a video that cannot be opened, fractional and negative corners.
SetX == TransformSettings("x", CornerPoint(-3, -1), CornerPoint(7, 1),
                          CornerPoint(9, 7), CornerPoint(-1, 5), 150, 150, 50, 180)
\* SetA2: the video of SetA with another quadrilateral and colour.
SetA2 == TransformSettings("a", CornerPoint(1, 1), CornerPoint(5, 3),
                           CornerPoint(3, 9), CornerPoint(1, 7), 50, 200, 200, 270)

SettingsPool == {SetA, SetB, SetX, SetA2}

\* settings.json as process start finds it
InitialDocs == {SetA, SetX}

\* lines 30-42: TransformSettings(...) built field by field from the document
LoadSettings(d) ==
    TransformSettings(d["videoName"],
                      CornerPoint(d["topLeft"]["x"], d["topLeft"]["y"]),
                      CornerPoint(d["topRight"]["x"], d["topRight"]["y"]),
                      CornerPoint(d["bottomRight"]["x"], d["bottomRight"]["y"]),
                      CornerPoint(d["bottomLeft"]["x"], d["bottomLeft"]["y"]),
                      d["brightness"], d["contrast"], d["saturation"],
                      d["rotation"])

\* settings.model_dump(): the dict of the model's fields, nested models dumped
DumpPoint(p) == [x |-> p.x, y |-> p.y]

model_dump(s) ==
    [videoName |-> s.videoName,
     topLeft |-> DumpPoint(s.topLeft), topRight |-> DumpPoint(s.topRight),
     bottomRight |-> DumpPoint(s.bottomRight),
     bottomLeft |-> DumpPoint(s.bottomLeft),
     brightness |-> s.brightness, contrast |-> s.contrast,
     saturation |-> s.saturation, rotation |-> s.rotation]

\* a settings.json that open(..., "w") truncated and json.dump did not fill
TruncatedDoc == [truncated |-> TRUE]

\* no settings value (before startup, before a first request)
NoSettings == [videoName |-> None]

\* ------------------------------------------------------------- frames
\* A decoded frame is an array of two halves; each half holds the tag
\* <<video, index>> of the picture it was decoded from.
BufIds == 1..MaxBufs
FrameTag(v, i) == <<v, i>>
NoTag == FrameTag(None, 0)
FreeBuf == <<NoTag, NoTag>>
Complete(f) == f[1] # NoTag /\ f[1] = f[2]

\* a released (or never opened) cv2.VideoCapture
Closed == [src |-> None, pos |-> 0]

VARIABLES
    phase,                \* boot | failed | loaded | serving | joining | down
    stop_thread,          \* lifespan's closure variable
    disk,                 \* the content of settings.json
    current_settings, ORIG_WIDTH, ORIG_HEIGHT, latest_frame,
    video_restart_event,
    heap,                 \* the frame arrays: buffer id -> two halves
    \* video_loop
    lpc, current_video_name, cap, cap_temp, frame,
    \* update_settings, one call per worker thread at a time
    upc, posted, video_changed, resp,
    replaced, persisted, lastWriter,   \* history of the call in progress
    calls,
    \* get_settings
    got,
    \* mjpeg_streamer
    spc, loc,
    warped,               \* one channel value of a pixel: [src, out]
    videos_dir,           \* the files of ./videos that open
    \* history of video_loop, kept when recording
    recording,
    retry,                \* after a backoff: the video that failed to open and
                          \* the videoNames configured since the wait ended
    stale,                \* frames published from a replaced source
    restarts              \* executions of the switch block, lines 75-85

sharedVars == <<disk, current_settings, ORIG_WIDTH, ORIG_HEIGHT, latest_frame,
                video_restart_event, heap>>
lifeVars == <<phase, stop_thread>>
loopVars == <<lpc, current_video_name, cap, cap_temp, frame>>
updVars == <<upc, posted, video_changed, resp, replaced, persisted, lastWriter,
             calls>>
streamVars == <<spc, loc>>
histVars == <<retry, stale, restarts>>
restVars == <<warped, videos_dir, recording, histVars>>
vars == <<sharedVars, lifeVars, loopVars, updVars, got, streamVars, restVars>>

\* worker threads that serve POST /settings
Updaters == {1, 2}

\* the locals of one mjpeg_streamer iteration, before anything is read
NoLocals == [ref |-> NoBuf, frame |-> FreeBuf, w |-> 0, h |-> 0,
             dst |-> <<>>, b |-> -1, c |-> -1, s |-> -1, rot |-> -1]

\* cv2.VideoCapture(f"./videos/{name}").isOpened()
IsOpened(v) == v \in videos_dir

\* no backoff since the last open
NoRetry == [failed |-> None, cfg |-> {}]

\* no pixel looked at
NoPixel == [src |-> -1, out |-> -1]

\* the module globals and the threads before the process starts
Globals ==
    /\ phase = "boot"
    /\ stop_thread = FALSE
    /\ disk \in {model_dump(s) : s \in InitialDocs}
    /\ current_settings = NoSettings
    /\ ORIG_WIDTH = 0
    /\ ORIG_HEIGHT = 0
    /\ latest_frame = NoBuf
    /\ video_restart_event = FALSE
    /\ heap = [b \in BufIds |-> FreeBuf]
    /\ lpc = "unstarted"
    /\ current_video_name = None
    /\ cap = Closed
    /\ cap_temp = None
    /\ frame = NoBuf
    /\ upc = [u \in Updaters |-> "idle"]
    /\ posted = [u \in Updaters |-> NoSettings]
    /\ video_changed = [u \in Updaters |-> FALSE]
    /\ resp = [u \in Updaters |-> None]
    /\ replaced = [u \in Updaters |-> None]
    /\ persisted = [u \in Updaters |-> NoSettings]
    /\ lastWriter = 0
    /\ calls = 0
    /\ got = NoSettings
    /\ videos_dir = Openable
    /\ retry = NoRetry
    /\ stale = 0
    /\ restarts = 0

Init ==
    /\ Globals
    /\ spc = "idle"
    /\ loc = NoLocals
    /\ warped = NoPixel
    /\ recording = FALSE

\* ------------------------------------------------ startup and lifespan
\* a startup that goes on when the configured video cannot be opened
StartupGoesOn ==
    /\ phase = "boot"
    /\ current_settings' = LoadSettings(disk)
    /\ IF IsOpened(current_settings'.videoName)
       THEN /\ ORIG_WIDTH' = NativeWidth(current_settings'.videoName)
            /\ ORIG_HEIGHT' = NativeHeight(current_settings'.videoName)
            /\ phase' = "loaded"
       ELSE /\ UNCHANGED <<ORIG_WIDTH, ORIG_HEIGHT>>
            /\ phase' = "loaded"
    /\ UNCHANGED restVars
    /\ UNCHANGED <<stop_thread, disk, latest_frame, video_restart_event, heap,
                   loopVars, updVars, got, streamVars>>

\* lines 30-58: load settings.json, open the configured video once to read
\* its size; RuntimeError when it cannot be opened
Startup ==
    /\ phase = "boot"
    /\ current_settings' = LoadSettings(disk)
    /\ IF IsOpened(current_settings'.videoName)
       THEN /\ ORIG_WIDTH' = NativeWidth(current_settings'.videoName)
            /\ ORIG_HEIGHT' = NativeHeight(current_settings'.videoName)
            /\ phase' = "loaded"
       ELSE /\ UNCHANGED <<ORIG_WIDTH, ORIG_HEIGHT>>
            /\ phase' = "failed"
    /\ UNCHANGED restVars
    /\ UNCHANGED <<stop_thread, disk, latest_frame, video_restart_event, heap,
                   loopVars, updVars, got, streamVars>>

\* lines 110-112: stop_thread = False; thread.start()
LifespanStart ==
    /\ phase = "loaded"
    /\ phase' = "serving"
    /\ stop_thread' = FALSE
    /\ lpc' = "L67"
    /\ UNCHANGED restVars
    /\ UNCHANGED <<sharedVars, current_video_name, cap, cap_temp, frame,
                   updVars, got, streamVars>>

\* line 114: stop_thread = True
LifespanStop ==
    /\ phase = "serving"
    /\ phase' = "joining"
    /\ stop_thread' = TRUE
    /\ UNCHANGED restVars
    /\ UNCHANGED <<sharedVars, loopVars, updVars, got, streamVars>>

\* line 115: thread.join() returns once video_loop has returned
LifespanJoin ==
    /\ phase = "joining"
    /\ lpc = "exited"
    /\ phase' = "down"
    /\ UNCHANGED restVars
    /\ UNCHANGED <<stop_thread, sharedVars, loopVars, updVars, got, streamVars>>

\* -------------------------------------------------------- frame arrays
\* the arrays something still refers to: the slot, video_loop's frame, and
\* the array a stream session is copying
Collect(h, refs) == [b \in BufIds |-> IF b \in refs THEN h[b] ELSE FreeBuf]

\* a newly allocated array
FreshBuf ==
    CHOOSE b \in BufIds :
        /\ b \notin {latest_frame, frame, loc.ref}
        /\ \A c \in BufIds : c < b => c \in {latest_frame, frame, loc.ref}

\* a decoder that writes into the array the slot refers to
ReadTargetInPlace == IF latest_frame # NoBuf THEN latest_frame ELSE FreshBuf

\* line 101: cap.read() returns its picture in a new array
ReadTarget == FreshBuf

\* ------------------------------------------------------------ video_loop
\* line 67: current_video_name = current_settings.videoName
L67 ==
    /\ lpc = "L67"
    /\ current_video_name' = current_settings.videoName
    /\ lpc' = "L70"
    /\ UNCHANGED restVars
    /\ UNCHANGED <<sharedVars, lifeVars, cap, cap_temp, frame, updVars, got,
                   streamVars>>

\* lines 70-71: if stop_thread(): break
L70 ==
    /\ lpc = "L70"
    /\ lpc' = IF stop_thread THEN "exited" ELSE "L74"
    /\ UNCHANGED restVars
    /\ UNCHANGED <<sharedVars, lifeVars, current_video_name, cap, cap_temp,
                   frame, updVars, got, streamVars>>

\* line 74, left operand: video_restart_event.is_set()
L74 ==
    /\ lpc = "L74"
    /\ lpc' = IF video_restart_event THEN "L75" ELSE "L74n"
    /\ UNCHANGED restVars
    /\ UNCHANGED <<sharedVars, lifeVars, current_video_name, cap, cap_temp,
                   frame, updVars, got, streamVars>>

\* line 74, right operand: current_video_name != current_settings.videoName
L74n ==
    /\ lpc = "L74n"
    /\ lpc' = IF current_video_name # current_settings.videoName
              THEN "L75" ELSE "L87"
    /\ UNCHANGED restVars
    /\ UNCHANGED <<sharedVars, lifeVars, current_video_name, cap, cap_temp,
                   frame, updVars, got, streamVars>>

\* line 75: current_video_name = current_settings.videoName
L75 ==
    /\ lpc = "L75"
    /\ current_video_name' = current_settings.videoName
    /\ lpc' = "L76"
    /\ restarts' = IF recording THEN restarts + 1 ELSE restarts
    /\ UNCHANGED <<warped, videos_dir, recording, retry, stale>>
    /\ UNCHANGED <<sharedVars, lifeVars, cap, cap_temp, frame, updVars, got,
                   streamVars>>

\* line 76: video_restart_event.clear()
L76 ==
    /\ lpc = "L76"
    /\ video_restart_event' = FALSE
    /\ lpc' = "L80"
    /\ UNCHANGED restVars
    /\ UNCHANGED <<disk, current_settings, ORIG_WIDTH, ORIG_HEIGHT,
                   latest_frame, heap, lifeVars, current_video_name, cap,
                   cap_temp, frame, updVars, got, streamVars>>

\* a switch that opens the new video without reading its size
L80NoSize ==
    /\ lpc = "L80"
    /\ cap_temp' = None
    /\ lpc' = "L87"
    /\ UNCHANGED restVars
    /\ UNCHANGED <<sharedVars, lifeVars, current_video_name, cap, frame,
                   updVars, got, streamVars>>

\* lines 80-81: cap_temp = cv2.VideoCapture(...); if cap_temp.isOpened()
L80 ==
    /\ lpc = "L80"
    /\ IF IsOpened(current_video_name)
       THEN cap_temp' = current_video_name /\ lpc' = "L82"
       ELSE cap_temp' = None /\ lpc' = "L87"
    /\ UNCHANGED restVars
    /\ UNCHANGED <<sharedVars, lifeVars, current_video_name, cap, frame,
                   updVars, got, streamVars>>

\* line 82: ORIG_WIDTH = int(cap_temp.get(CAP_PROP_FRAME_WIDTH))
L82 ==
    /\ lpc = "L82"
    /\ ORIG_WIDTH' = NativeWidth(cap_temp)
    /\ lpc' = "L83"
    /\ UNCHANGED restVars
    /\ UNCHANGED <<disk, current_settings, ORIG_HEIGHT, latest_frame,
                   video_restart_event, heap, lifeVars, current_video_name,
                   cap, cap_temp, frame, updVars, got, streamVars>>

\* lines 83-84: ORIG_HEIGHT = int(cap_temp.get(...)); cap_temp.release()
L83 ==
    /\ lpc = "L83"
    /\ ORIG_HEIGHT' = NativeHeight(cap_temp)
    /\ cap_temp' = None
    /\ lpc' = "L87"
    /\ UNCHANGED restVars
    /\ UNCHANGED <<disk, current_settings, ORIG_WIDTH, latest_frame,
                   video_restart_event, heap, lifeVars, current_video_name,
                   cap, frame, updVars, got, streamVars>>

\* lines 87-88: cap = cv2.VideoCapture(...); if not cap.isOpened()
L87 ==
    /\ lpc = "L87"
    /\ IF IsOpened(current_video_name)
       THEN cap' = [src |-> current_video_name, pos |-> 0] /\ lpc' = "L95"
       ELSE cap' = Closed /\ lpc' = "L90"
    /\ retry' = NoRetry
    /\ UNCHANGED <<warped, videos_dir, recording, stale, restarts>>
    /\ UNCHANGED <<sharedVars, lifeVars, current_video_name, cap_temp, frame,
                   updVars, got, streamVars>>

\* a loop that gives up after a failed open
L90GivesUp ==
    /\ lpc = "L90"
    /\ lpc' = "exited"
    /\ UNCHANGED restVars
    /\ UNCHANGED <<sharedVars, lifeVars, current_video_name, cap, cap_temp,
                   frame, updVars, got, streamVars>>

\* a backoff that opens the same video again without looking at the settings
L90RetriesOpen ==
    /\ lpc = "L90"
    /\ lpc' = "L87"
    /\ retry' = IF recording
                THEN [failed |-> current_video_name,
                      cfg |-> {current_settings.videoName}]
                ELSE retry
    /\ UNCHANGED <<warped, videos_dir, recording, stale, restarts>>
    /\ UNCHANGED <<sharedVars, lifeVars, current_video_name, cap, cap_temp,
                   frame, updVars, got, streamVars>>

\* lines 89-91: print the error; time.sleep(1); continue
L90 ==
    /\ lpc = "L90"
    /\ lpc' = "L70"
    /\ retry' = IF recording
                THEN [failed |-> current_video_name,
                      cfg |-> {current_settings.videoName}]
                ELSE retry
    /\ UNCHANGED <<warped, videos_dir, recording, stale, restarts>>
    /\ UNCHANGED <<sharedVars, lifeVars, current_video_name, cap, cap_temp,
                   frame, updVars, got, streamVars>>

\* line 95, left operand: current_video_name != current_settings.videoName
L95 ==
    /\ lpc = "L95"
    /\ lpc' = IF current_video_name # current_settings.videoName
              THEN "L106" ELSE "L95e"
    /\ UNCHANGED restVars
    /\ UNCHANGED <<sharedVars, lifeVars, current_video_name, cap, cap_temp,
                   frame, updVars, got, streamVars>>

\* line 95, right operand: video_restart_event.is_set()
L95e ==
    /\ lpc = "L95e"
    /\ lpc' = IF video_restart_event THEN "L106" ELSE "L98"
    /\ UNCHANGED restVars
    /\ UNCHANGED <<sharedVars, lifeVars, current_video_name, cap, cap_temp,
                   frame, updVars, got, streamVars>>

\* a stop check that returns from the function instead of breaking
L98Return ==
    /\ lpc = "L98"
    /\ lpc' = IF stop_thread THEN "exited" ELSE "L101"
    /\ UNCHANGED restVars
    /\ UNCHANGED <<sharedVars, lifeVars, current_video_name, cap, cap_temp,
                   frame, updVars, got, streamVars>>

\* lines 98-99: if stop_thread(): break
L98 ==
    /\ lpc = "L98"
    /\ lpc' = IF stop_thread THEN "L106" ELSE "L101"
    /\ UNCHANGED restVars
    /\ UNCHANGED <<sharedVars, lifeVars, current_video_name, cap, cap_temp,
                   frame, updVars, got, streamVars>>

\* a loop that returns when the video has been played to its end
L101EofEnds ==
    /\ lpc = "L101"
    /\ IF cap.pos < FrameCount(cap.src)
       THEN /\ frame' = ReadTarget
            /\ heap' = [heap EXCEPT ![frame'] =
                            <<FrameTag(cap.src, cap.pos), @[2]>>]
            /\ lpc' = "L101b"
       ELSE /\ UNCHANGED <<frame, heap>>
            /\ lpc' = "exited"
    /\ UNCHANGED restVars
    /\ UNCHANGED <<disk, current_settings, ORIG_WIDTH, ORIG_HEIGHT,
                   latest_frame, video_restart_event, lifeVars,
                   current_video_name, cap, cap_temp, updVars, got, streamVars>>

\* lines 101-103: success, frame = cap.read(): the decoder fills the first
\* half of the array it returns, or reports the end of the stream
L101 ==
    /\ lpc = "L101"
    /\ IF cap.pos < FrameCount(cap.src)
       THEN /\ frame' = ReadTarget
            /\ heap' = [heap EXCEPT ![frame'] =
                            <<FrameTag(cap.src, cap.pos), @[2]>>]
            /\ lpc' = "L101b"
       ELSE /\ UNCHANGED <<frame, heap>>
            /\ lpc' = "L106"
    /\ UNCHANGED restVars
    /\ UNCHANGED <<disk, current_settings, ORIG_WIDTH, ORIG_HEIGHT,
                   latest_frame, video_restart_event, lifeVars,
                   current_video_name, cap, cap_temp, updVars, got, streamVars>>

\* line 101, continued: the decoder fills the second half and returns
L101b ==
    /\ lpc = "L101b"
    /\ heap' = [heap EXCEPT ![frame] = <<@[1], FrameTag(cap.src, cap.pos)>>]
    /\ cap' = [cap EXCEPT !.pos = @ + 1]
    /\ lpc' = "L104"
    /\ UNCHANGED restVars
    /\ UNCHANGED <<disk, current_settings, ORIG_WIDTH, ORIG_HEIGHT,
                   latest_frame, video_restart_event, lifeVars,
                   current_video_name, cap_temp, frame, updVars, got,
                   streamVars>>

\* a loop that looks for a switch only before the first read of a video
L104SkipsCheck ==
    /\ lpc = "L104"
    /\ latest_frame' = frame
    /\ frame' = NoBuf
    /\ heap' = Collect(heap, {latest_frame', loc.ref})
    /\ lpc' = "L98"
    /\ stale' = IF /\ recording
                   /\ cap.src # current_settings.videoName
                   /\ \A u \in DOMAIN upc : upc[u] = "idle"
                THEN stale + 1 ELSE stale
    /\ UNCHANGED <<warped, videos_dir, recording, retry, restarts>>
    /\ UNCHANGED <<disk, current_settings, ORIG_WIDTH, ORIG_HEIGHT,
                   video_restart_event, lifeVars, current_video_name, cap,
                   cap_temp, updVars, got, streamVars>>

\* lines 104-105: latest_frame = frame; time.sleep(1/30)
L104 ==
    /\ lpc = "L104"
    /\ latest_frame' = frame
    /\ frame' = NoBuf
    /\ heap' = Collect(heap, {latest_frame', loc.ref})
    /\ lpc' = "L95"
    /\ stale' = IF /\ recording
                   /\ cap.src # current_settings.videoName
                   /\ \A u \in DOMAIN upc : upc[u] = "idle"
                THEN stale + 1 ELSE stale
    /\ UNCHANGED <<warped, videos_dir, recording, retry, restarts>>
    /\ UNCHANGED <<disk, current_settings, ORIG_WIDTH, ORIG_HEIGHT,
                   video_restart_event, lifeVars, current_video_name, cap,
                   cap_temp, updVars, got, streamVars>>

\* a loop that leaves the inner loop without cap.release()
L106NoRelease ==
    /\ lpc = "L106"
    /\ lpc' = "L70"
    /\ UNCHANGED restVars
    /\ UNCHANGED <<sharedVars, lifeVars, current_video_name, cap, cap_temp, frame,
                   updVars, got, streamVars>>

\* line 106: cap.release()
L106 ==
    /\ lpc = "L106"
    /\ cap' = Closed
    /\ lpc' = "L70"
    /\ UNCHANGED restVars
    /\ UNCHANGED <<sharedVars, lifeVars, current_video_name, cap_temp, frame,
                   updVars, got, streamVars>>

video_loop ==
    \/ L67 \/ L70 \/ L74 \/ L74n \/ L75 \/ L76 \/ L80 \/ L82 \/ L83 \/ L87
    \/ L90 \/ L95 \/ L95e \/ L98 \/ L101 \/ L101b \/ L104 \/ L106

\* ------------------------------------------------------- the handlers
\* a request body whose contrast is cut to 100 on the way in
ParseBodyClamped(d) ==
    TransformSettings(d["videoName"],
                      CornerPoint(d["topLeft"]["x"], d["topLeft"]["y"]),
                      CornerPoint(d["topRight"]["x"], d["topRight"]["y"]),
                      CornerPoint(d["bottomRight"]["x"], d["bottomRight"]["y"]),
                      CornerPoint(d["bottomLeft"]["x"], d["bottomLeft"]["y"]),
                      d["brightness"],
                      IF d["contrast"] > 100 THEN 100 ELSE d["contrast"],
                      d["saturation"], d["rotation"])

\* lines 14-27, 137: the request body validated into a TransformSettings,
\* each declared field taken from the key of its name
ParseBody(d) ==
    TransformSettings(d["videoName"],
                      CornerPoint(d["topLeft"]["x"], d["topLeft"]["y"]),
                      CornerPoint(d["topRight"]["x"], d["topRight"]["y"]),
                      CornerPoint(d["bottomRight"]["x"], d["bottomRight"]["y"]),
                      CornerPoint(d["bottomLeft"]["x"], d["bottomLeft"]["y"]),
                      d["brightness"], d["contrast"], d["saturation"],
                      d["rotation"])

\* the bodies clients post
Bodies == {model_dump(s) : s \in SettingsPool}

\* lines 137-142: a POST /settings arrives at worker u;
\* video_changed = current_settings.videoName != settings.videoName
U142(u, body) ==
    /\ phase = "serving"
    /\ upc[u] = "idle"
    /\ calls' = calls + 1
    /\ posted' = [posted EXCEPT ![u] = body]
    /\ video_changed' = [video_changed EXCEPT ![u] =
                            current_settings.videoName # ParseBody(body).videoName]
    /\ resp' = [resp EXCEPT ![u] = None]
    /\ replaced' = [replaced EXCEPT ![u] = None]
    /\ persisted' = [persisted EXCEPT ![u] = NoSettings]
    /\ upc' = [upc EXCEPT ![u] = "L144"]
    /\ stale' = 0
    /\ UNCHANGED <<warped, videos_dir, recording, retry, restarts>>
    /\ UNCHANGED <<sharedVars, lifeVars, loopVars, lastWriter, got, streamVars>>

\* line 144: current_settings = settings
U144(u) ==
    /\ upc[u] = "L144"
    /\ current_settings' = ParseBody(posted[u])
    /\ replaced' = [replaced EXCEPT ![u] = current_settings.videoName]
    /\ lastWriter' = u
    /\ upc' = [upc EXCEPT ![u] = "L145"]
    /\ retry' = IF retry = NoRetry THEN retry
                ELSE [retry EXCEPT !.cfg = @ \cup {current_settings'.videoName}]
    /\ UNCHANGED <<warped, videos_dir, recording, stale, restarts>>
    /\ UNCHANGED <<disk, ORIG_WIDTH, ORIG_HEIGHT, latest_frame,
                   video_restart_event, heap, lifeVars, loopVars, posted,
                   video_changed, resp, persisted, calls, got, streamVars>>

\* a handler that rewrites settings.json only when the video changed
U145OnlyOnChange(u) ==
    /\ upc[u] = "L145"
    /\ IF video_changed[u]
       THEN /\ disk' = model_dump(ParseBody(posted[u]))
            /\ persisted' = [persisted EXCEPT ![u] = disk']
       ELSE UNCHANGED <<disk, persisted>>
    /\ upc' = [upc EXCEPT ![u] = "L149"]
    /\ UNCHANGED restVars
    /\ UNCHANGED <<current_settings, ORIG_WIDTH, ORIG_HEIGHT, latest_frame,
                   video_restart_event, heap, lifeVars, loopVars, posted,
                   video_changed, resp, replaced, lastWriter, calls, got,
                   streamVars>>

\* lines 145-146: with open("settings.json", "w") as f: json.dump(...)
U145(u) ==
    /\ upc[u] = "L145"
    /\ disk' = model_dump(ParseBody(posted[u]))
    /\ persisted' = [persisted EXCEPT ![u] = disk']
    /\ upc' = [upc EXCEPT ![u] = "L149"]
    /\ UNCHANGED restVars
    /\ UNCHANGED <<current_settings, ORIG_WIDTH, ORIG_HEIGHT, latest_frame,
                   video_restart_event, heap, lifeVars, loopVars, posted,
                   video_changed, resp, replaced, lastWriter, calls, got,
                   streamVars>>

\* lines 145-146 raise OSError: open fails and the file is as it was, or the
\* dump fails and leaves the truncated file.  The handler ends with the
\* exception; line 149 is never reached.
U145Raises(u) ==
    /\ upc[u] = "L145"
    /\ disk' \in {disk, TruncatedDoc}
    /\ upc' = [upc EXCEPT ![u] = "idle"]
    /\ resp' = [resp EXCEPT ![u] = "error"]
    /\ UNCHANGED restVars
    /\ UNCHANGED <<current_settings, ORIG_WIDTH, ORIG_HEIGHT, latest_frame,
                   video_restart_event, heap, lifeVars, loopVars, posted,
                   video_changed, replaced, persisted, lastWriter, calls, got,
                   streamVars>>

\* lines 149-152: if video_changed: video_restart_event.set();
\* return {"status": "ok"}
U149(u) ==
    /\ upc[u] = "L149"
    /\ video_restart_event' = (video_restart_event \/ video_changed[u])
    /\ resp' = [resp EXCEPT ![u] = "ok"]
    /\ upc' = [upc EXCEPT ![u] = "idle"]
    /\ UNCHANGED restVars
    /\ UNCHANGED <<disk, current_settings, ORIG_WIDTH, ORIG_HEIGHT,
                   latest_frame, heap, lifeVars, loopVars, posted,
                   video_changed, replaced, persisted, lastWriter, calls, got,
                   streamVars>>

\* one step of a call already accepted, settings.json being writable
update_settings(u) == U144(u) \/ U145(u) \/ U149(u)

\* lines 132-134: return current_settings.model_dump()
get_settings ==
    /\ phase = "serving"
    /\ got' = model_dump(current_settings)
    /\ UNCHANGED restVars
    /\ UNCHANGED <<sharedVars, lifeVars, loopVars, updVars, streamVars>>

\* ------------------------------------------------------- mjpeg_streamer
\* the coordinates lines 175-178 read, in the order they are read
Coord(s, i) ==
    CASE i = 1 -> s.topLeft.x      [] i = 2 -> s.topLeft.y
      [] i = 3 -> s.topRight.x     [] i = 4 -> s.topRight.y
      [] i = 5 -> s.bottomRight.x  [] i = 6 -> s.bottomRight.y
      [] i = 7 -> s.bottomLeft.x   [] i = 8 -> s.bottomLeft.y

NumCoords == Cardinality({"topLeft", "topRight", "bottomRight", "bottomLeft"}) * 2

\* int(v): a half-pixel coordinate cut towards zero to whole pixels
IntTrunc(v) == IF v >= 0 THEN v \div 2 ELSE -((-v) \div 2)

MinOf(S) == CHOOSE m \in S : \A n \in S : m <= n
MaxOf(S) == CHOOSE m \in S : \A n \in S : m >= n

\* dst[:, 0] and dst[:, 1]
Xs(dst) == {dst[i] : i \in {1, 3, 5, 7}}
Ys(dst) == {dst[i] : i \in {2, 4, 6, 8}}

\* lines 182-185
min_x(dst) == IntTrunc(MinOf(Xs(dst)))
max_x(dst) == IntTrunc(MaxOf(Xs(dst)))
min_y(dst) == IntTrunc(MinOf(Ys(dst)))
max_y(dst) == IntTrunc(MaxOf(Ys(dst)))

\* lines 188-189, in pixels
output_width(dst) == max_x(dst) - min_x(dst)
output_height(dst) == max_y(dst) - min_y(dst)

\* lines 192-194: dst_corrected[:, 0] -= min_x; dst_corrected[:, 1] -= min_y
\* (half pixels)
dst_corrected(dst) ==
    [i \in DOMAIN dst |-> IF i % 2 = 1 THEN dst[i] - 2 * min_x(dst)
                                       ELSE dst[i] - 2 * min_y(dst)]

\* GET /video: video_feed starts a generator for the client
StreamStart ==
    /\ phase = "serving"
    /\ spc = "idle"
    /\ spc' = "S164"
    /\ UNCHANGED restVars
    /\ UNCHANGED <<sharedVars, lifeVars, loopVars, updVars, got, loc>>

\* lines 164-166: if latest_frame is None: time.sleep(0.01); continue
S164 ==
    /\ spc = "S164"
    /\ latest_frame # NoBuf
    /\ spc' = "S168"
    /\ UNCHANGED restVars
    /\ UNCHANGED <<sharedVars, lifeVars, loopVars, updVars, got, loc>>

\* line 168: frame = latest_frame.copy(): the slot's array is looked up and
\* its first half copied
S168 ==
    /\ spc = "S168"
    /\ loc' = [loc EXCEPT !.ref = latest_frame,
                          !.frame = <<heap[latest_frame][1], NoTag>>]
    /\ spc' = "S168b"
    /\ UNCHANGED restVars
    /\ UNCHANGED <<sharedVars, lifeVars, loopVars, updVars, got>>

\* line 168, continued: the second half is copied, the array let go
S168b ==
    /\ spc = "S168b"
    /\ loc' = [loc EXCEPT !.ref = NoBuf,
                          !.frame = <<@[1], heap[loc.ref][2]>>]
    /\ heap' = Collect(heap, {latest_frame, frame})
    /\ spc' = "S170"
    /\ UNCHANGED restVars
    /\ UNCHANGED <<disk, current_settings, ORIG_WIDTH, ORIG_HEIGHT,
                   latest_frame, video_restart_event, lifeVars, loopVars,
                   updVars, got>>

\* line 170, first global: w = ORIG_WIDTH
S170 ==
    /\ spc = "S170"
    /\ loc' = [loc EXCEPT !.w = ORIG_WIDTH]
    /\ spc' = "S170h"
    /\ UNCHANGED restVars
    /\ UNCHANGED <<sharedVars, lifeVars, loopVars, updVars, got>>

\* line 170, second global: h = ORIG_HEIGHT
S170h ==
    /\ spc = "S170h"
    /\ loc' = [loc EXCEPT !.h = ORIG_HEIGHT]
    /\ spc' = "S175"
    /\ UNCHANGED restVars
    /\ UNCHANGED <<sharedVars, lifeVars, loopVars, updVars, got>>

\* lines 174-179: each coordinate is one more read of current_settings
S175 ==
    /\ spc = "S175"
    /\ loc' = [loc EXCEPT !.dst =
                  Append(@, Coord(current_settings, Len(@) + 1))]
    /\ spc' = IF Len(loc'.dst) = NumCoords THEN "S199" ELSE "S175"
    /\ UNCHANGED restVars
    /\ UNCHANGED <<sharedVars, lifeVars, loopVars, updVars, got>>

\* whether cv2 is handed a canvas with something in it
Renderable(dst) == output_width(dst) > 0 /\ output_height(dst) > 0

\* lines 181-199: the bounding box, getPerspectiveTransform and
\* warpPerspective(frame, M, (output_width, output_height)).  Nothing
\* looks at the size: with an empty size cv2 either raises cv2.error, which
\* ends the generator, or returns an image all the same.
S199 ==
    /\ spc = "S199"
    /\ \/ spc' = "S204"
       \/ ~Renderable(loc.dst) /\ spc' = "crashed"
    /\ UNCHANGED restVars
    /\ UNCHANGED <<sharedVars, lifeVars, loopVars, updVars, got, loc>>

\* line 204: current_settings.brightness
S204 ==
    /\ spc = "S204"
    /\ loc' = [loc EXCEPT !.b = current_settings.brightness]
    /\ spc' = "S205"
    /\ UNCHANGED restVars
    /\ UNCHANGED <<sharedVars, lifeVars, loopVars, updVars, got>>

\* line 205: current_settings.contrast
S205 ==
    /\ spc = "S205"
    /\ loc' = [loc EXCEPT !.c = current_settings.contrast]
    /\ spc' = "S206"
    /\ UNCHANGED restVars
    /\ UNCHANGED <<sharedVars, lifeVars, loopVars, updVars, got>>

\* line 206: current_settings.saturation
S206 ==
    /\ spc = "S206"
    /\ loc' = [loc EXCEPT !.s = current_settings.saturation]
    /\ spc' = "S211"
    /\ UNCHANGED restVars
    /\ UNCHANGED <<sharedVars, lifeVars, loopVars, updVars, got>>

\* lines 210-216: current_settings.rotation is read, the image rotated and
\* encoded; if not ret: continue
S211 ==
    /\ spc = "S211"
    /\ \/ /\ loc' = [loc EXCEPT !.rot = current_settings.rotation]
          /\ spc' = "S218"
       \/ /\ loc' = NoLocals
          /\ spc' = "S164"
    /\ UNCHANGED restVars
    /\ UNCHANGED <<sharedVars, lifeVars, loopVars, updVars, got>>

\* lines 217-222: the part is yielded to the client, then time.sleep(1/30)
S218 ==
    /\ spc = "S218"
    /\ loc' = NoLocals
    /\ spc' = "S164"
    /\ UNCHANGED restVars
    /\ UNCHANGED <<sharedVars, lifeVars, loopVars, updVars, got>>

\* the client goes away: the generator is closed where it is suspended
Disconnect ==
    /\ spc = "S218"
    /\ loc' = NoLocals
    /\ spc' = "closed"
    /\ UNCHANGED restVars
    /\ UNCHANGED <<sharedVars, lifeVars, loopVars, updVars, got>>

mjpeg_streamer ==
    \/ StreamStart \/ S164 \/ S168 \/ S168b \/ S170 \/ S170h \/ S175 \/ S199
    \/ S204 \/ S205 \/ S206 \/ S211 \/ S218 \/ Disconnect

\* ------------------------------------------------------- specifications
Lifespan == Startup \/ LifespanStart \/ LifespanStop \/ LifespanJoin

\* what one client posts while a stream is watched: another video with a
\* degenerate quadrilateral, the same video with another quadrilateral, a
\* video that cannot be opened
StreamBodies == {model_dump(SetB), model_dump(SetA2), model_dump(SetX)}

\* The pipeline while it serves: the decode loop, one client of
\* POST /settings and one stream session.  Nothing here reads
\* settings.json, so the write to it is taken to succeed.
Next ==
    \/ Startup \/ LifespanStart
    \/ video_loop
    \/ \E body \in StreamBodies : calls < MaxStreamPosts /\ U142(1, body)
    \/ update_settings(1)
    \/ mjpeg_streamer

Spec == Init /\ [][Next]_vars

\* posts that change nothing but the video
SlotBodies == {[model_dump(SetA) EXCEPT !["videoName"] = v] : v \in Videos}

\* The frame slot: the decode loop, a stream session, and a client that
\* switches between the videos.
SlotNext ==
    \/ Startup \/ LifespanStart
    \/ video_loop
    \/ \E body \in SlotBodies : calls < MaxSlotPosts /\ U142(1, body)
    \/ update_settings(1)
    \/ mjpeg_streamer

SlotSpec == Init /\ [][SlotNext]_vars

\* The settings handlers under concurrent requests.  video_loop and the
\* stream sessions write nothing a handler reads (current_settings,
\* settings.json), so they are left out.
ApiNext ==
    \/ Startup \/ LifespanStart
    \/ \E u \in Updaters, body \in Bodies : calls < MaxApiPosts /\ U142(u, body)
    \/ \E u \in Updaters : update_settings(u) \/ U145Raises(u)
    \/ get_settings

ApiSpec == Init /\ [][ApiNext]_vars

\* The decode loop with one client of POST /settings and no stream session
\* (a session writes nothing the loop reads).
LoopNext ==
    \/ Lifespan
    \/ video_loop
    \/ \E body \in Bodies : calls < MaxLoopPosts /\ U142(1, body)
    \/ update_settings(1)

\* The loop thread and a handler thread that has a request are scheduled
\* again and again, and thread.join() returns once the thread has ended.
\* Nothing makes a client post or the server shut down.
LiveSpec ==
    /\ Init /\ [][LoopNext]_vars
    /\ WF_vars(video_loop)
    /\ WF_vars(update_settings(1))
    /\ WF_vars(LifespanJoin)

\* The decode loop and its one client, with the history of the loop kept.
HistInit ==
    /\ Globals
    /\ spc = "idle"
    /\ loc = NoLocals
    /\ warped = NoPixel
    /\ recording = TRUE

HistSpec == HistInit /\ [][LoopNext]_vars

\* a file is copied into ./videos while the server runs
Upload ==
    /\ \E v \in Videos \ videos_dir : videos_dir' = videos_dir \cup {v}
    /\ UNCHANGED <<sharedVars, lifeVars, loopVars, updVars, got, streamVars,
                   warped, recording, histVars>>

\* The decode loop while ./videos changes.  The client posts once the loop
\* thread has run its first line.
FsNext ==
    \/ Lifespan
    \/ video_loop
    \/ \E body \in Bodies :
          calls < MaxFsPosts /\ lpc # "L67" /\ U142(1, body)
    \/ update_settings(1)
    \/ Upload

FsSpec == Init /\ [][FsNext]_vars

\* The decode loop from start to shutdown, next to a stream session and a
\* client that changes the video.
HandleNext ==
    \/ Lifespan
    \/ video_loop
    \/ \E body \in SlotBodies : calls < MaxHandlePosts /\ U142(1, body)
    \/ update_settings(1)
    \/ mjpeg_streamer

HandleSpec == Init /\ [][HandleNext]_vars

\* The settings handlers while every write of settings.json succeeds.
WritableNext ==
    \/ Startup \/ LifespanStart
    \/ \E u \in Updaters, body \in Bodies :
          calls < MaxWritablePosts /\ U142(u, body)
    \/ \E u \in Updaters : update_settings(u)
    \/ get_settings

WritableSpec == Init /\ [][WritableNext]_vars

\* ------------------------------------------------ apply_color_correction
\* the largest value of an 8-bit channel
MaxPixel == 255

\* cvRound of m hundredths: the nearest integer, a half to the even one
cvRound(m) ==
    LET q == m \div 100
        r == m % 100
    IN  IF r > 50 \/ (r = 50 /\ q % 2 = 1) THEN q + 1 ELSE q

\* cv2.convertScaleAbs(img, alpha=alpha, beta=beta) on one channel value p:
\* saturate_cast<uchar>(|p * alpha + beta|), alpha given in hundredths
convertScaleAbs(p, alpha, beta) ==
    LET v == alpha * p + 100 * beta
        a == IF v < 0 THEN -v ELSE v
    IN  IF cvRound(a) > MaxPixel THEN MaxPixel ELSE cvRound(a)

\* lines 154-159: alpha = c / 100.0; beta = b - 100
apply_color_correction(p, b, c) == convertScaleAbs(p, c, b - 100)

\* the channel values and the brightness / contrast percentages applied
Pixels == {0, 1, 50, 100, 127, 200, 254, MaxPixel}
Percents == {0, 50, 100, 150, 200}

\* lines 202-207: warped = apply_color_correction(warped, ...), with the
\* brightness and contrast the session has read
S202 ==
    /\ spc = "S202"
    /\ warped' = [warped EXCEPT
                     !.out = apply_color_correction(warped.src, loc.b, loc.c)]
    /\ spc' = "S211"
    /\ UNCHANGED <<sharedVars, lifeVars, loopVars, updVars, got, loc,
                   videos_dir, recording, histVars>>

\* a stream session about to run line 202, for every channel value and
\* every brightness and contrast of the sets above
ColorInit ==
    /\ Globals
    /\ spc = "S202"
    /\ \E b \in Percents, c \in Percents :
          loc = [NoLocals EXCEPT !.b = b, !.c = c]
    /\ \E p \in Pixels : warped = [src |-> p, out |-> p]
    /\ recording = FALSE

ColorSpec == ColorInit /\ [][S202]_vars

\* =============================================================== claims
\* positions of a stream session after line 168 / after line 170 / after
\* line 199 of the iteration in progress
AfterCopy == {"S170", "S170h", "S175", "S199", "S204", "S205", "S206", "S211",
              "S218"}
AfterDims == AfterCopy \ {"S170", "S170h"}
AfterWarp == {"S204", "S205", "S206", "S211", "S218"}

\* the iteration about to yield used the fields of the settings value s
UsesOnly(s) ==
    /\ \A i \in 1..NumCoords : loc.dst[i] = Coord(s, i)
    /\ loc.b = s.brightness
    /\ loc.c = s.contrast
    /\ loc.rot = s.rotation

\* C1: every frame a stream session emits was computed from the corner
\* points, brightness, contrast and rotation of one single settings value.
C1_OneSnapshot ==
    spc = "S218" => \E s \in SettingsPool : UsesOnly(s)

\* C2: whenever a stream session has paired a frame with a native width and
\* height, both are those of the video the frame was decoded from.
C2_DimsOfFrame ==
    spc \in AfterDims =>
        /\ loc.w = NativeWidth(loc.frame[1][1])
        /\ loc.h = NativeHeight(loc.frame[1][1])

\* C3: with corner points that make the canvas empty, the session neither
\* ends nor emits: the iteration stops before anything is warped or yielded.
C3_SkipsDegenerate ==
    /\ spc # "crashed"
    /\ spc \in AfterWarp => Renderable(loc.dst)

\* C5: the array in the slot is always a completely decoded frame, and so is
\* the array a stream session is copying and every copy it has made.
C5_NoTornFrame ==
    /\ latest_frame # NoBuf => Complete(heap[latest_frame])
    /\ spc = "S168b" => Complete(heap[loc.ref])
    /\ spc \in AfterCopy => Complete(loc.frame)

\* a session is half way through its copy of a frame the loop has since
\* replaced in the slot, while the loop is decoding the next one
C5_Witness ==
    /\ spc = "S168b"
    /\ loc.ref # latest_frame
    /\ lpc = "L101b"

\* C6: a call answers {"status": "ok"} only when it has written the posted
\* settings in full to settings.json, and it writes them only after it has
\* replaced the live settings.
C6_PersistBeforeOk ==
    \A u \in Updaters :
        /\ resp[u] = "ok" => persisted[u] = posted[u]
        /\ persisted[u] # NoSettings => replaced[u] # None

\* a call has answered ok and settings.json holds what it posted
C6_Witness ==
    \E u \in Updaters :
        /\ resp[u] = "ok"
        /\ disk = posted[u]
        /\ posted[u] # model_dump(SetA)

\* C7: a call that has returned raised the signal (lines 149-150 set the
\* event exactly when video_changed holds) if and only if the videoName it
\* posted differs from the videoName of the live settings it replaced.
C7_SignalIffReplacedDiffers ==
    \A u \in Updaters :
        resp[u] = "ok" =>
            (video_changed[u] <=> posted[u]["videoName"] # replaced[u])

Publishing(S) ==
    /\ lpc \in {"L95", "L95e", "L98", "L101"}
    /\ cap.src = S
    /\ cap.pos > 0
    /\ latest_frame # NoBuf
    /\ heap[latest_frame][1][1] = S

\* the native size the loop has derived is that of S
DimsOf(S) == ORIG_WIDTH = NativeWidth(S) /\ ORIG_HEIGHT = NativeHeight(S)

\* a call has replaced live settings of another video by settings of S
SwitchedTo(S) ==
    /\ lastWriter = 1
    /\ replaced[1] \notin {None, S}
    /\ current_settings.videoName = S

\* C4: once update_settings has replaced the live settings by ones with
\* another video, which can be opened, the loop comes to have that video
\* open, the native size re-derived for it and frames of it published, and
\* is still running (unless the video is changed again or shutdown is
\* requested first).
C4_SwitchCompletes ==
    \A S \in Openable :
        SwitchedTo(S) ~>
            \/ Publishing(S) /\ DimsOf(S) /\ lpc # "exited"
            \/ current_settings.videoName # S
            \/ stop_thread

\* the switch from a.mp4 to b.mp4 is complete
C4_Witness ==
    /\ SwitchedTo("b")
    /\ Publishing("b")
    /\ DimsOf("b")
    /\ ~stop_thread

\* C9: once stop_thread is true the loop ends, from wherever it is; when it
\* has ended it holds no open capture; and the lifespan teardown is
\* complete only when the loop has ended.
C9_ShutdownStopsLoop ==
    /\ [](lpc = "exited" => cap = Closed /\ cap_temp = None)
    /\ [](phase = "down" => lpc = "exited")
    /\ stop_thread ~> lpc = "exited"
    /\ stop_thread ~> phase = "down"

\* teardown is complete after the loop had published frames
C9_Witness ==
    /\ phase = "down"
    /\ lpc = "exited"
    /\ latest_frame # NoBuf

\* C10: the loop ends only on shutdown; after a failed open it comes back to
\* the open; and when the configured video can be opened it comes to publish
\* frames of it (unless the video is changed again or shutdown is requested
\* first).
C10_OpenFailureRetried ==
    /\ [](lpc = "exited" => stop_thread)
    /\ [](lpc = "L90" => ~IsOpened(current_video_name) /\ cap = Closed)
    /\ (lpc = "L90") ~> (lpc = "L87" \/ stop_thread)
    /\ \A S \in Openable :
           (current_settings.videoName = S /\ lpc # "unstarted") ~>
               \/ Publishing(S)
               \/ current_settings.videoName # S
               \/ stop_thread

\* the loop waits after a failed open while the configuration already names
\* a video that can be opened
C10_Witness ==
    /\ lpc = "L90"
    /\ IsOpened(current_settings.videoName)
    /\ ~stop_thread

\* C11: when the video named by settings.json cannot be opened at process
\* start, startup fails: the native width and height are never set, the
\* loop thread is never started and no request is served.  No other failed
\* open is fatal: once the loop thread runs, the process is never in the
\* failed state, and the loop ends only when it is told to stop.
C11_StartupOpenFailureIsFatal ==
    /\ (phase # "boot" /\ lastWriter = 0
            /\ ~IsOpened(current_settings.videoName)) =>
        /\ phase = "failed"
        /\ ORIG_WIDTH = 0 /\ ORIG_HEIGHT = 0
        /\ lpc = "unstarted"
        /\ calls = 0
        /\ \A u \in Updaters : upc[u] = "idle"
    /\ lpc # "unstarted" => phase # "failed"
    /\ lpc = "exited" => stop_thread

C11_Witness == phase = "failed" /\ current_settings = SetX

\* z component of (q - p) x (r - q), for corner points p, q, r of dst
Turn(dst, p, q, r) ==
    (dst[2*q - 1] - dst[2*p - 1]) * (dst[2*r] - dst[2*q])
        - (dst[2*q] - dst[2*p]) * (dst[2*r - 1] - dst[2*q - 1])

\* the four corner points, in the order read, turn the same way
Convex(dst) ==
    LET t == <<Turn(dst, 1, 2, 3), Turn(dst, 2, 3, 4), Turn(dst, 3, 4, 1),
               Turn(dst, 4, 1, 2)>>
    IN  (\A i \in 1..4 : t[i] > 0) \/ (\A i \in 1..4 : t[i] < 0)

\* C12: for every convex destination quadrilateral a stream session has
\* warped into, the canvas is as wide as max x - min x and as high as
\* max y - min y of the four corner points, and the destination points
\* are moved by exactly (-min x, -min y).
C12_CanvasIsBoundingBox ==
    (spc \in AfterWarp /\ Convex(loc.dst)) =>
        /\ 2 * output_width(loc.dst) = MaxOf(Xs(loc.dst)) - MinOf(Xs(loc.dst))
        /\ 2 * output_height(loc.dst) = MaxOf(Ys(loc.dst)) - MinOf(Ys(loc.dst))
        /\ \A i \in 1..NumCoords :
              dst_corrected(loc.dst)[i] =
                  loc.dst[i] - (IF i % 2 = 1 THEN MinOf(Xs(loc.dst))
                                             ELSE MinOf(Ys(loc.dst)))

\* C13: for every channel value p and every brightness b and contrast c,
\* colour correction yields c/100 * p + (b - 100) clamped to the channel
\* range (below 0 becomes 0, above 255 becomes 255, a value inside is kept,
\* to the nearest integer); b = 100, c = 100 changes nothing; b = 200,
\* c = 100 yields a value >= p and <= 255.
C13_ClampedLinear ==
    spc = "S211" /\ warped # NoPixel =>
        LET p == warped.src
            v == loc.c * p + 100 * (loc.b - 100)
        IN  /\ v < 0 => warped.out = 0
            /\ v > 100 * MaxPixel => warped.out = MaxPixel
            /\ (0 <= v /\ v <= 100 * MaxPixel) =>
                   100 * warped.out - v \in -50..50
            /\ (loc.b = 100 /\ loc.c = 100) => warped.out = p
            /\ (loc.b = 200 /\ loc.c = 100) =>
                   warped.out >= p /\ warped.out <= MaxPixel

\* the native widths and heights there are
Widths == {NativeWidth(v) : v \in Videos}
Heights == {NativeHeight(v) : v \in Videos}

\* cap.read() is about to report the end of video S, which is the
\* configured one, with no restart signal set and no shutdown asked for
AtEof(S) ==
    /\ lpc = "L101"
    /\ cap.src = S
    /\ cap.pos >= FrameCount(S)
    /\ current_settings.videoName = S
    /\ ~video_restart_event
    /\ ~stop_thread

\* the loop is about to publish the first picture of S again
FirstFrameAgain(S) ==
    /\ lpc = "L104"
    /\ cap = [src |-> S, pos |-> 1]
    /\ heap[frame] = <<FrameTag(S, 0), FrameTag(S, 0)>>

\* C14: when a read fails at the end of the video while the configured
\* videoName is unchanged and no restart signal is set, the loop releases
\* the handle, opens the same video from its start and publishes its first
\* picture again, with ORIG_WIDTH and ORIG_HEIGHT as they were, unless in
\* the meantime the videoName is changed, the signal is set or shutdown is
\* asked for.  The end of the video never ends the loop.
C14_EofReopensSameSource ==
    /\ \A S \in Openable, w \in Widths, h \in Heights :
          (AtEof(S) /\ ORIG_WIDTH = w /\ ORIG_HEIGHT = h) ~>
              \/ FirstFrameAgain(S) /\ ORIG_WIDTH = w /\ ORIG_HEIGHT = h
              \/ current_settings.videoName # S
              \/ video_restart_event
              \/ stop_thread
    /\ [](lpc = "exited" => stop_thread)
    /\ [](lpc \in {"L70", "L74", "L74n", "L87"} => cap = Closed)

C14_Witness ==
    \E S \in Openable :
        /\ FirstFrameAgain(S)
        /\ calls = 0
        /\ latest_frame # NoBuf
        /\ heap[latest_frame][1] = FrameTag(S, FrameCount(S) - 1)

\* C15: the open attempt that follows a failed open and its wait uses a
\* videoName that was configured at some moment since the wait ended; so
\* when the configured videoName was changed during the wait and is not
\* changed back, the video that failed is not opened again.
C15_RetryUsesConfigured ==
    (lpc = "L87" /\ retry # NoRetry) =>
        /\ current_video_name \in retry.cfg
        /\ retry.failed \notin retry.cfg => current_video_name # retry.failed

C15_Witness ==
    /\ lpc = "L87"
    /\ retry.failed = "x"
    /\ "x" \notin retry.cfg
    /\ current_video_name = "b"

\* C16: whenever the loop has a video open and has published a frame of
\* it, ORIG_WIDTH and ORIG_HEIGHT are the native width and height of that
\* video, whichever way the loop came to decode it.
C16_DimsOfOpenSource ==
    \A S \in Videos : Publishing(S) => DimsOf(S)

\* C17: once an update_settings call has returned, the loop publishes at
\* most one more frame of a video that is not the configured one; having
\* published it, the loop is at the test of line 95 or at the release of
\* line 106, not at another read, for as long as it holds that handle.
C17_AtMostOneStaleFrame ==
    /\ stale <= 1
    /\ (/\ stale = 1
        /\ \A u \in Updaters : upc[u] = "idle"
        /\ cap # Closed
        /\ cap.src # current_settings.videoName) => lpc \in {"L95", "L106"}

C17_Witness ==
    /\ stale = 1
    /\ lpc = "L106"
    /\ video_restart_event
    /\ cap.src = "a"
    /\ current_settings.videoName = "b"

\* the decode handles that are open
OpenHandles ==
    (IF cap # Closed THEN 1 ELSE 0) + (IF cap_temp # None THEN 1 ELSE 0)

\* at most one handle is open; none is open where the loop is about to
\* open one (lines 80, 87), during the backoff, and after the loop ended
HandlesReleased ==
    /\ OpenHandles <= 1
    /\ lpc \in {"L80", "L87", "L90", "exited", "unstarted"} => OpenHandles = 0

\* C18: the loop holds at most one open decode handle at any moment: the
\* old handle is released before the next is opened on a switch, at the
\* end of the video and on shutdown, and none is open during the backoff.
\* Only steps of video_loop open or release a handle.
C18_OneHandle ==
    /\ HandlesReleased
    /\ [][/\ HandlesReleased'
          /\ <<cap, cap_temp>>' # <<cap, cap_temp>> => lpc' # lpc]_vars

C18_Witness ==
    /\ lpc = "L83"
    /\ cap_temp = "b"
    /\ cap = Closed
    /\ latest_frame # NoBuf
    /\ spc = "S175"

\* C19: whenever no update_settings call is in progress, settings.json
\* holds the live settings, however concurrent calls interleave.
C19_DiskEqualsLive ==
    (phase = "serving" /\ \A u \in Updaters : upc[u] = "idle") =>
        disk = model_dump(current_settings)

\* C20: a single update_settings call that names a video that can be
\* opened makes the loop run its switch block (discard the handle, open
\* the video again) at most once, whichever of the restart signal and the
\* name mismatch the loop sees first.
C20_OneRestartPerUpdate ==
    (calls <= 1 /\ IsOpened(current_settings.videoName)) => restarts <= 1
====
